---- MODULE Spec2Model ----
(***************************************************************************)
(* Payment-gateway backend (reysdaaud/backend): the confirm handlers of    *)
(* the five server variants under src/ crediting "coins" to user documents *)
(* of one shared Firestore ledger.                                         *)
(*                                                                         *)
(* The ledger is the only shared state.  Every await of a handler is a     *)
(* suspension point, so a handler is a sequence of atomic steps, one per   *)
(* stretch of synchronous code between two awaits.                         *)
(***************************************************************************)
EXTENDS Integers, Sequences, FiniteSets, TLC

(***************************************************************************)
(* JavaScript values.  A number is held in fixed point: the integer v      *)
(* stands for v / Unit, so 1.5 is representable; NaN is a value of its     *)
(* own.  A string is a sequence of one-character strings.                  *)
(***************************************************************************)
Unit == 2
NaN == -1000000

JsUndefined == [t |-> "undefined", v |-> 0, s |-> <<>>]
JsNull == [t |-> "null", v |-> 0, s |-> <<>>]
JsNum(n) == [t |-> "number", v |-> n, s |-> <<>>]
JsStr(str) == [t |-> "string", v |-> 0, s |-> str]

Digits == <<"0", "1", "2", "3", "4", "5", "6", "7", "8", "9">>
IsDigit(c) == \E i \in 1..10 : Digits[i] = c
DigitVal(c) == (CHOOSE i \in 1..10 : Digits[i] = c) - 1

RECURSIVE LeadingDigits(_)
LeadingDigits(s) ==
  IF s = <<>> \/ ~IsDigit(Head(s)) THEN <<>>
  ELSE <<Head(s)>> \o LeadingDigits(Tail(s))

RECURSIVE DigitsToInt(_)
DigitsToInt(ds) ==
  IF ds = <<>> THEN 0
  ELSE 10 * DigitsToInt(SubSeq(ds, 1, Len(ds) - 1)) + DigitVal(ds[Len(ds)])

RECURSIVE TrimLeft(_)
TrimLeft(s) == IF s # <<>> /\ Head(s) = " " THEN TrimLeft(Tail(s)) ELSE s

RECURSIVE TrimRight(_)
TrimRight(s) ==
  IF s # <<>> /\ s[Len(s)] = " " THEN TrimRight(SubSeq(s, 1, Len(s) - 1)) ELSE s

Drop(s, n) == SubSeq(s, n + 1, Len(s))

\* Truncation toward zero of a fixed-point number to an integer.
Trunc(v) == IF v >= 0 THEN (v \div Unit) * Unit ELSE -(((-v) \div Unit) * Unit)

\* parseInt(string, 10): leading blanks, an optional sign, then the longest
\* run of digits; NaN when there is no digit.  What follows the digits
\* ("5x", "1.5") is ignored.
ParseIntStr(str) ==
  LET s0 == TrimLeft(str)
      neg == s0 # <<>> /\ Head(s0) = "-"
      s1 == IF s0 # <<>> /\ Head(s0) \in {"-", "+"} THEN Tail(s0) ELSE s0
      ds == LeadingDigits(s1)
  IN IF ds = <<>> THEN NaN
     ELSE IF neg THEN -(DigitsToInt(ds) * Unit) ELSE DigitsToInt(ds) * Unit

\* parseInt(x): x is first converted to a string ("undefined", "null" and
\* "NaN" hold no digit; a number prints its integer part first).
ParseInt(x) ==
  CASE x.t = "string" -> ParseIntStr(x.s)
    [] x.t = "number" -> IF x.v = NaN THEN NaN ELSE Trunc(x.v)
    [] OTHER -> NaN

\* The fraction digits of a decimal literal, in fixed point.  The inputs
\* of the model carry the fractions "", "0" and "5" only.
FractionVal(fs) == IF fs # <<>> /\ Head(fs) = "5" THEN Unit \div 2 ELSE 0

\* Number(string): blanks trimmed on both sides; the empty string is 0; the
\* WHOLE rest must be a decimal literal, else NaN.
NumberStr(str) ==
  LET s0 == TrimRight(TrimLeft(str))
      neg == s0 # <<>> /\ Head(s0) = "-"
      s1 == IF s0 # <<>> /\ Head(s0) \in {"-", "+"} THEN Tail(s0) ELSE s0
      ds == LeadingDigits(s1)
      r1 == Drop(s1, Len(ds))
      hasDot == r1 # <<>> /\ Head(r1) = "."
      fs == IF hasDot THEN LeadingDigits(Tail(r1)) ELSE <<>>
      r2 == IF hasDot THEN Drop(Tail(r1), Len(fs)) ELSE r1
      mag == DigitsToInt(ds) * Unit + FractionVal(fs)
  IN IF s0 = <<>> THEN 0
     ELSE IF r2 # <<>> \/ (ds = <<>> /\ fs = <<>>) THEN NaN
     ELSE IF neg THEN -mag ELSE mag

\* Number(x)
ToNumber(x) ==
  CASE x.t = "string" -> NumberStr(x.s)
    [] x.t = "number" -> x.v
    [] x.t = "null" -> 0
    [] OTHER -> NaN

\* !!x
Truthy(x) ==
  CASE x.t = "string" -> x.s # <<>>
    [] x.t = "number" -> x.v # 0 /\ x.v # NaN
    [] OTHER -> FALSE

\* x == null
IsNullish(x) == x.t \in {"undefined", "null"}

\* a + b on numbers
JsAdd(a, b) == IF a = NaN \/ b = NaN THEN NaN ELSE a + b

\* (n || 0) on a number
OrZero(n) == IF n = NaN THEN 0 ELSE n

\* String.prototype.toUpperCase on the letters used by the model's inputs.
LowerLetters ==
  <<"a", "b", "c", "d", "e", "f", "g", "h", "i", "j", "k", "l", "m",
    "n", "o", "p", "q", "r", "s", "t", "u", "v", "w", "x", "y", "z">>
UpperLetters ==
  <<"A", "B", "C", "D", "E", "F", "G", "H", "I", "J", "K", "L", "M",
    "N", "O", "P", "Q", "R", "S", "T", "U", "V", "W", "X", "Y", "Z">>
UpperChar(c) ==
  IF \E i \in 1..Len(LowerLetters) : LowerLetters[i] = c
  THEN UpperLetters[CHOOSE i \in 1..Len(LowerLetters) : LowerLetters[i] = c]
  ELSE c
ToUpperCase(s) == [i \in 1..Len(s) |-> UpperChar(s[i])]

(***************************************************************************)
(* Bounds of the model.                                                    *)
(***************************************************************************)
NReq == 2          \* request slots: requests in flight at the same time
MaxClock == 1      \* the millisecond clock runs over 0..MaxClock
MaxAttempts == 2   \* attempts of one store transaction before it gives up
MaxRequests == 3   \* requests received in one run of a one-handler revision

Req == 1..NReq
Users == {"u1", "u2"}
Refs == {"r1", "r2"}
NoUser == ""       \* an absent (undefined) user id
NoRef == ""        \* an absent (undefined) reference

(***************************************************************************)
(* Provider-reported statuses, as character sequences.                     *)
(***************************************************************************)
StrSuccess == <<"s", "u", "c", "c", "e", "s", "s">>
StrSucceeded == <<"s", "u", "c", "c", "e", "e", "d", "e", "d">>
StrSUCCESS == <<"S", "U", "C", "C", "E", "S", "S">>
StrAPPROVED == <<"A", "P", "P", "R", "O", "V", "E", "D">>
StrFailed == <<"f", "a", "i", "l", "e", "d">>

\* the sentinel, a change of letter case, the sentinel as a proper prefix,
\* and an unrelated status
PaystackStatusInputs ==
  {StrSuccess, <<"S">> \o Tail(StrSuccess), StrSuccess \o <<"f", "u", "l">>, StrFailed}
StripeStatusInputs ==
  {StrSucceeded, <<"S">> \o Tail(StrSucceeded), StrSucceeded \o <<"x">>, StrFailed}
WaafiStatusInputs ==
  {StrSUCCESS, StrSuccess, StrSUCCESS \o <<"F", "U", "L">>, StrFailed, <<>>}
WaafiStateInputs ==
  {StrAPPROVED, <<"a">> \o Tail(StrAPPROVED), StrAPPROVED \o <<"x">>, StrFailed}

\* values of the coins metadata field
CoinInputs ==
  {JsNum(Unit), JsStr(<<"2">>), JsStr(<<"1", ".", "5">>), JsStr(<<"0">>),
   JsStr(<<"-", "1">>), JsUndefined}
\* Stripe metadata values are strings
StripeCoinInputs == {c \in CoinInputs : c.t # "number"}
UserInputs == Users \cup {NoUser}
\* the provider's settlement amount, in cents
AmountInputs == {100}

(***************************************************************************)
(* The ledger: one document per user in collection "users", with fields    *)
(* coins and paymentHistory (an array), and the store's update time as a   *)
(* version.  server.js also queries a subcollection                        *)
(* users/{id}/paymentHistory, which no handler writes.                     *)
(***************************************************************************)
VARIABLES variant, users, paymentHistoryDocs, credits, answers, req, now,
          waafiWebhookSecret, started

vars ==
  <<variant, users, paymentHistoryDocs, credits, answers, req, now, waafiWebhookSecret,
    started>>

\* the deployment, fixed at startup
config == <<variant, waafiWebhookSecret>>
\* the documents of the store, the log of the credits it committed, and the
\* log of the responses sent for them
ledger == <<users, paymentHistoryDocs, credits, answers>>

NoDoc == [exists |-> FALSE, coins |-> 0, paymentHistory |-> <<>>, version |-> 0]
SignedUpDoc == [exists |-> TRUE, coins |-> 0, paymentHistory |-> <<>>, version |-> 0]

NoRecord ==
  [gateway |-> "", method |-> "", reference |-> NoRef, coins |-> 0, amount |-> 0,
   status |-> "", timestamp |-> 0, gatewayTransactionId |-> NoRef, waafiStatus |-> <<>>]

\* a buffered write of a transaction, or of a plain update
NoWrite ==
  [kind |-> "none", coins |-> 0, hasRec |-> FALSE, rec |-> NoRecord, serverTs |-> FALSE]
SetWrite(c, rec) ==
  [kind |-> "set", coins |-> c, hasRec |-> TRUE, rec |-> rec, serverTs |-> FALSE]
\* UpdateWrite with a slip: the update replaces the document
UpdateWriteAsSet(c, rec, serverTs) ==
  [kind |-> "set", coins |-> c, hasRec |-> TRUE, rec |-> rec, serverTs |-> serverTs]
UpdateWrite(c, rec, serverTs) ==
  [kind |-> "update", coins |-> c, hasRec |-> TRUE, rec |-> rec, serverTs |-> serverTs]
CoinsOnlyWrite(c) ==
  [kind |-> "update", coins |-> c, hasRec |-> FALSE, rec |-> NoRecord, serverTs |-> FALSE]
\* Throw with a slip: the absent document is created empty
ThrowAsCreate == SetWrite(0, NoRecord)
\* the update function throws: nothing is buffered
Throw == [NoWrite EXCEPT !.kind = "throw"]

\* FieldValue.arrayUnion(e): e is appended unless an equal element is there
ArrayUnion(arr, e) ==
  IF \E i \in 1..Len(arr) : arr[i] = e THEN arr ELSE Append(arr, e)

\* the document after write w is applied at store time t; a record built
\* with FieldValue.serverTimestamp() gets its timestamp from the store
ApplyWrite(doc, w, t) ==
  LET rec == IF w.serverTs THEN [w.rec EXCEPT !.timestamp = t] ELSE w.rec
  IN CASE w.kind = "set" ->
            [exists |-> TRUE, coins |-> w.coins, paymentHistory |-> <<rec>>,
             version |-> doc.version + 1]
       [] w.kind = "update" ->
            [doc EXCEPT !.coins = w.coins,
                        !.paymentHistory = IF w.hasRec THEN ArrayUnion(@, rec) ELSE @,
                        !.version = @ + 1]
       [] OTHER -> doc

(***************************************************************************)
(* Requests.  pc is the await the handler is suspended at; wrote counts    *)
(* the ledger writes the request has committed, arrived is the length of   *)
(* its user's credit log when it arrived, and lookVersion is the version   *)
(* of the user document when its duplicate lookup returned.  metaCoins is   *)
(* the coins value of the payment's metadata or custom reference as the    *)
(* provider delivered it, coins the number the handler made of its input.  *)
(***************************************************************************)
NoResp == [code |-> 0, kind |-> "none", hasBalance |-> FALSE, newBalance |-> 0]
Resp(code, kind) == [code |-> code, kind |-> kind, hasBalance |-> FALSE, newBalance |-> 0]
RespBalance(code, kind, b) ==
  [code |-> code, kind |-> kind, hasBalance |-> TRUE, newBalance |-> b]

\* UpstreamFailure with a slip: the failed provider call is answered as a
\* decline
UpstreamFailureAsDecline == Resp(400, "upstream_error")
\* the answer after a provider call that threw or came back unsuccessful
UpstreamFailure == Resp(500, "upstream_error")

Idle ==
  [pc |-> "idle", h |-> "none", userId |-> NoUser, metaCoins |-> JsUndefined,
   coins |-> 0, ref |-> NoRef,
   amount |-> 0, email |-> FALSE, status |-> <<>>, txid |-> NoRef, sigOk |-> FALSE,
   snapVersion |-> 0, write |-> NoWrite, attempts |-> 0, resp |-> NoResp, wrote |-> 0,
   arrived |-> 0, lookVersion |-> 0]

\* a request answered before it reached the ledger
Answered(h, status, resp) ==
  [Idle EXCEPT !.pc = "done", !.h = h, !.status = status, !.resp = resp]

\* Finish with a slip: the response is sent and the handler does not
\* return
FinishWithoutReturn(q, resp) == [q EXCEPT !.resp = resp]
\* a request answered after its handler went to the ledger
Finish(q, resp) ==
  [Idle EXCEPT !.pc = "done", !.h = q.h, !.status = q.status, !.sigOk = q.sigOk,
               !.wrote = q.wrote, !.resp = resp]

(***************************************************************************)
(* The repository holds six revisions of the server; a deployment runs     *)
(* one.  server.js is two revisions, one after the other in the file.      *)
(***************************************************************************)
Variants ==
  {"server.js#1", "server.js#2", "part_000", "part_001", "part_002", "part_003"}
Handlers(v) ==
  CASE v = "server.js#1" -> {"PaystackS1", "WaafiS1"}
    [] v = "server.js#2" -> {"PaystackS2"}
    [] v = "part_000" -> {"WaafiP0", "PaystackP0", "StripeP0"}
    [] v = "part_001" -> {"StripeP1", "PaystackP1", "WaafiP1"}
    [] v = "part_002" -> {"StripeP2"}
    [] v = "part_003" -> {"PaystackS2", "WaafiS1"}

Init ==
  /\ variant \in Variants
  /\ credits = [u \in Users |-> <<>>]
  /\ answers = [u \in Users |-> <<>>]
  /\ users = [u \in Users |-> IF u = "u1" THEN SignedUpDoc ELSE NoDoc]
  /\ paymentHistoryDocs = [u \in Users |-> {}]
  /\ req = [r \in Req |-> Idle]
  /\ now = 0
  /\ waafiWebhookSecret \in (IF "WaafiS1" \in Handlers(variant) THEN BOOLEAN ELSE {FALSE})
  /\ started = 0

\* the clock advances
Tick ==
  /\ now < MaxClock
  /\ now' = now + 1
  /\ UNCHANGED <<config, ledger, req, started>>

\* a client reads the response; the slot takes the next request
Close(r) ==
  /\ req[r].pc = "done"
  /\ req' = [req EXCEPT ![r] = Idle]
  /\ UNCHANGED <<config, ledger, now, started>>

\* Reject with a slip: the user documents are made to exist before the
\* request is validated
RejectAfterCreate(r, h, status, resp) ==
  /\ req' = [req EXCEPT ![r] = Answered(h, status, resp)]
  /\ started' = started + 1
  /\ users' = [u \in Users |-> IF users[u].exists THEN users[u] ELSE SignedUpDoc]
  /\ UNCHANGED <<config, paymentHistoryDocs, credits, answers, now>>

\* a request arrives at slot r and is answered without a ledger operation
Reject(r, h, status, resp) ==
  /\ req' = [req EXCEPT ![r] = Answered(h, status, resp)]
  /\ started' = started + 1
  /\ UNCHANGED <<config, ledger, now>>

\* a request arrives at slot r, passes validation and suspends at pc
Admit(r, h, pc, status, userId, metaCoins, coins, ref, amount, txid, sigOk) ==
  /\ req' = [req EXCEPT ![r] =
               [Idle EXCEPT !.pc = pc, !.h = h, !.status = status, !.userId = userId,
                            !.metaCoins = metaCoins, !.coins = coins, !.ref = ref, !.amount = amount,
                            !.txid = txid, !.sigOk = sigOk,
                            !.arrived = Len(credits[userId])]]
  /\ started' = started + 1
  /\ UNCHANGED <<config, ledger, now>>

\* the requests one run receives: one less where the revision has several
\* confirm handlers
RequestBudget(v) ==
  IF Cardinality(Handlers(v)) = 1 THEN MaxRequests ELSE MaxRequests - 1

\* a request for handler h may arrive at slot r: the lowest free slot
CanReceive(r, h) ==
  /\ h \in Handlers(variant)
  /\ req[r].pc = "idle"
  /\ \A s \in Req : s < r => req[s].pc # "idle"
  /\ started < RequestBudget(variant)

\* the status checks of the handlers
PaystackApproved(apiStatus, status) == apiStatus /\ status = StrSuccess
PaystackApprovedP1(status) == status = StrSuccess
StripeSucceeded(status) == status = StrSucceeded
\* WaafiApprovedS1 with a slip: startsWith in place of ===
WaafiApprovedS1Prefix(status) ==
  Len(status) >= Len(StrSUCCESS)
  /\ SubSeq(ToUpperCase(status), 1, Len(StrSUCCESS)) = StrSUCCESS
WaafiApprovedS1(status) == ToUpperCase(status) = StrSUCCESS
WaafiApprovedP(hasParams, state) == hasParams /\ state = StrAPPROVED

\* amount / 100 of a provider amount in cents
Div100(cents) == (cents * Unit) \div 100

(***************************************************************************)
(* server.js, first variant: GET /paystack/verify/:reference.  From the    *)
(* provider call to the await of the duplicate lookup.                     *)
(***************************************************************************)
PaystackVerifyS1(r) ==
  /\ CanReceive(r, "PaystackS1")
  /\ \/ Reject(r, "PaystackS1", <<>>, UpstreamFailure)
     \/ \E ref \in Refs, apiStatus \in BOOLEAN, status \in PaystackStatusInputs :
          IF ~PaystackApproved(apiStatus, status)
          THEN Reject(r, "PaystackS1", status, Resp(200, "not_approved"))
          ELSE \E hasMeta \in BOOLEAN, userId \in UserInputs, coins \in CoinInputs :
                 IF ~hasMeta \/ userId = NoUser \/ IsNullish(coins)
                 THEN Reject(r, "PaystackS1", status, Resp(200, "missing_metadata"))
                 ELSE IF ToNumber(coins) = NaN \/ ToNumber(coins) <= 0
                 THEN Reject(r, "PaystackS1", status, Resp(200, "invalid_coins"))
                 ELSE \E cents \in AmountInputs :
                        Admit(r, "PaystackS1", "lookup", status, userId, coins,
                              ToNumber(coins), ref, Div100(cents), NoRef, FALSE)

\* the duplicate lookup returns: a query of the subcollection
\* users/{userId}/paymentHistory where reference == paystackReference
PaystackLookupS1(r) ==
  /\ req[r].pc = "lookup"
  /\ IF \E d \in paymentHistoryDocs[req[r].userId] : d.reference = req[r].ref
     THEN req' = [req EXCEPT ![r] = Finish(@, Resp(200, "duplicate"))]
     ELSE req' = [req EXCEPT ![r].pc = "txget",
                             ![r].lookVersion = users[req[r].userId].version]
  /\ UNCHANGED <<config, ledger, now, started>>

\* the update function of the transaction
PaystackBodyS1(q, doc, t) ==
  LET paymentData ==
        [NoRecord EXCEPT !.amount = q.amount, !.coins = q.coins, !.reference = q.ref,
                         !.gateway = "paystack", !.status = "success"]
  IN IF ~doc.exists THEN Throw
     ELSE UpdateWrite(JsAdd(OrZero(doc.coins), q.coins), paymentData, TRUE)

(***************************************************************************)
(* server.js, second variant, and part_003: GET /paystack/verify.          *)
(***************************************************************************)
PaystackVerifyS2(r) ==
  /\ CanReceive(r, "PaystackS2")
  /\ \/ Reject(r, "PaystackS2", <<>>, UpstreamFailure)
     \/ \E ref \in Refs, apiStatus \in BOOLEAN, status \in PaystackStatusInputs :
          IF ~PaystackApproved(apiStatus, status)
          THEN Reject(r, "PaystackS2", status, Resp(200, "not_approved"))
          ELSE \E hasMeta \in BOOLEAN, userId \in UserInputs, coins \in CoinInputs :
                 IF ~hasMeta \/ userId = NoUser \/ IsNullish(coins)
                 THEN Reject(r, "PaystackS2", status, Resp(200, "missing_metadata"))
                 ELSE IF ToNumber(coins) = NaN \/ ToNumber(coins) <= 0
                 THEN Reject(r, "PaystackS2", status, Resp(200, "invalid_coins"))
                 ELSE \E cents \in AmountInputs :
                        Admit(r, "PaystackS2", "txget", status, userId, coins,
                              ToNumber(coins), ref, Div100(cents), NoRef, FALSE)

\* PaystackBodyS2 with a slip: the created document starts at coins: 0
PaystackBodyS2ZeroOnCreate(q, doc, t) ==
  LET paymentData ==
        [NoRecord EXCEPT !.amount = q.amount, !.coins = q.coins, !.timestamp = t,
                         !.reference = q.ref, !.gateway = "paystack",
                         !.status = "success"]
  IN IF ~doc.exists THEN SetWrite(0, paymentData)
     ELSE UpdateWrite(JsAdd(OrZero(doc.coins), q.coins), paymentData, FALSE)

PaystackBodyS2(q, doc, t) ==
  LET paymentData ==
        [NoRecord EXCEPT !.amount = q.amount, !.coins = q.coins, !.timestamp = t,
                         !.reference = q.ref, !.gateway = "paystack",
                         !.status = "success"]
  IN IF ~doc.exists THEN SetWrite(q.coins, paymentData)
     ELSE UpdateWrite(JsAdd(OrZero(doc.coins), q.coins), paymentData, FALSE)

(***************************************************************************)
(* server.js, first variant, and part_003: POST /api/waafi/callback.       *)
(* crypto.createHmac('sha256', secret).update(payload).digest('hex') is    *)
(* taken as collision free: two digests are equal exactly when key and     *)
(* payload are.  A request carries no x-waafi-signature header, or the     *)
(* digest of some payload under some key.                                  *)
(***************************************************************************)
Hmac(key, payload) == <<key, payload>>
NoSignature == <<>>
SignatureInputs ==
  {NoSignature} \cup {Hmac(k, b) : k \in {"secret", "other key"},
                                   b \in {"this body", "other body"}}

WaafiCallbackS1(r) ==
  /\ CanReceive(r, "WaafiS1")
  /\ \E waafiSignature \in SignatureInputs :
       IF waafiSignature = NoSignature \/ ~waafiWebhookSecret
       THEN Reject(r, "WaafiS1", <<>>, Resp(401, "missing_signature"))
       ELSE IF waafiSignature # Hmac("secret", "this body")
       THEN Reject(r, "WaafiS1", <<>>, Resp(403, "invalid_signature"))
       ELSE \E status \in WaafiStatusInputs, transactionId \in Refs \cup {NoRef},
               amountAndCurrency \in BOOLEAN,
               customReference \in {"absent", "not json", "json"} :
              IF \/ status = <<>> \/ transactionId = NoRef \/ ~amountAndCurrency
                 \/ customReference # "json"
              THEN Reject(r, "WaafiS1", status, Resp(400, "incomplete"))
              ELSE \E userId \in UserInputs, coins \in CoinInputs,
                      internalTxId \in Refs \cup {NoRef} :
                     IF userId = NoUser \/ coins.t = "undefined" \/ internalTxId = NoRef
                     THEN Reject(r, "WaafiS1", status, Resp(400, "missing_metadata"))
                     ELSE IF ParseInt(coins) = NaN \/ ParseInt(coins) <= 0
                     THEN Reject(r, "WaafiS1", status, Resp(400, "invalid_coins"))
                     ELSE IF ~WaafiApprovedS1(status)
                     THEN Reject(r, "WaafiS1", status, Resp(200, "not_approved"))
                     ELSE \E originalAmountKES \in AmountInputs :
                            Admit(r, "WaafiS1", "txget", status, userId, coins,
                                  ParseInt(coins), internalTxId,
                                  originalAmountKES * Unit, transactionId, TRUE)

\* WaafiBodyS1 with a slip: a transactionId that differs from internalTxId
\* aborts the transaction
WaafiBodyS1MatchingIds(q, doc, t) ==
  LET paymentRecord ==
        [NoRecord EXCEPT !.method = "waafi", !.amount = q.amount, !.coins = q.coins,
                         !.reference = q.ref, !.gatewayTransactionId = q.txid,
                         !.status = "success", !.waafiStatus = q.status]
  IN IF ~doc.exists \/ q.txid # q.ref THEN Throw
     ELSE UpdateWrite(JsAdd(OrZero(doc.coins), q.coins), paymentRecord, TRUE)
\* the update function of the transaction
WaafiBodyS1(q, doc, t) ==
  LET paymentRecord ==
        [NoRecord EXCEPT !.method = "waafi", !.amount = q.amount, !.coins = q.coins,
                         !.reference = q.ref, !.gatewayTransactionId = q.txid,
                         !.status = "success", !.waafiStatus = q.status]
  IN IF ~doc.exists THEN Throw
     ELSE UpdateWrite(JsAdd(OrZero(doc.coins), q.coins), paymentRecord, TRUE)

(***************************************************************************)
(* part_000 and part_001: POST /api/waafi/callback, no signature check.    *)
(* The body is {waafiResult: {params: {state, invoiceId, transactionId,    *)
(* referenceId, txAmount}}}; referenceId and transactionId are present.    *)
(***************************************************************************)
TxIds == {"t1"}

WaafiValidate(r, h) ==
  \E hasParams \in BOOLEAN, state \in WaafiStateInputs :
    IF ~WaafiApprovedP(hasParams, state)
    THEN Reject(r, h, state, Resp(400, "not_approved"))
    ELSE \E userId \in UserInputs, txAmount \in CoinInputs :
           IF userId = NoUser \/ ParseInt(txAmount) = NaN
           THEN Reject(r, h, state, Resp(400, "missing_metadata"))
           ELSE \E referenceId \in Refs, transactionId \in TxIds :
                  Admit(r, h, "txget", state, userId, JsUndefined, ParseInt(txAmount),
                        referenceId, ParseInt(txAmount), transactionId, FALSE)

WaafiCallbackP0(r) == CanReceive(r, "WaafiP0") /\ WaafiValidate(r, "WaafiP0")

WaafiCallbackP1(r) == CanReceive(r, "WaafiP1") /\ WaafiValidate(r, "WaafiP1")

WaafiBodyP0(q, doc, t) ==
  LET payment ==
        [NoRecord EXCEPT !.amount = q.coins, !.coins = q.coins,
                         !.gatewayTransactionId = q.txid, !.reference = q.ref,
                         !.status = "success", !.gateway = "waafi", !.timestamp = t]
  IN IF ~doc.exists THEN SetWrite(q.coins, payment)
     ELSE UpdateWrite(JsAdd(OrZero(doc.coins), q.coins), payment, FALSE)

WaafiBodyP1(q, doc, t) ==
  LET prev == IF doc.exists THEN OrZero(doc.coins) ELSE 0
      payment ==
        [NoRecord EXCEPT !.coins = q.coins, !.amount = q.coins,
                         !.gatewayTransactionId = q.txid, !.reference = q.ref,
                         !.status = "success", !.gateway = "waafi", !.timestamp = t]
  IN IF ~doc.exists THEN SetWrite(q.coins, payment)
     ELSE UpdateWrite(JsAdd(prev, q.coins), payment, FALSE)

(***************************************************************************)
(* part_000: GET /paystack/verify/:reference.                              *)
(***************************************************************************)
PaystackVerifyP0(r) ==
  /\ CanReceive(r, "PaystackP0")
  /\ \/ Reject(r, "PaystackP0", <<>>, UpstreamFailure)
     \/ \E ref \in Refs, apiStatus \in BOOLEAN, status \in PaystackStatusInputs :
          IF ~PaystackApproved(apiStatus, status)
          THEN Reject(r, "PaystackP0", status, Resp(400, "not_approved"))
          ELSE \E hasMeta \in BOOLEAN, userId \in UserInputs, coins \in CoinInputs :
                 IF ~hasMeta \/ userId = NoUser \/ ~Truthy(coins)
                 THEN Reject(r, "PaystackP0", status, Resp(200, "missing_metadata"))
                 ELSE \E cents \in AmountInputs :
                        Admit(r, "PaystackP0", "txget", status, userId, coins,
                              ParseInt(coins), ref, Div100(cents), NoRef, FALSE)

PaystackBodyP0(q, doc, t) ==
  LET paymentData ==
        [NoRecord EXCEPT !.amount = q.amount, !.coins = q.coins, !.timestamp = t,
                         !.reference = q.ref, !.gateway = "paystack",
                         !.status = "success"]
  IN IF ~doc.exists THEN SetWrite(q.coins, paymentData)
     ELSE UpdateWrite(JsAdd(OrZero(doc.coins), q.coins), paymentData, FALSE)

(***************************************************************************)
(* part_001: GET /paystack/verify/:reference.  metadata.coins of an absent *)
(* metadata and doc(undefined) throw inside the try block.                 *)
(***************************************************************************)
PaystackVerifyP1(r) ==
  /\ CanReceive(r, "PaystackP1")
  /\ \/ Reject(r, "PaystackP1", <<>>, UpstreamFailure)
     \/ \E ref \in Refs, status \in PaystackStatusInputs :
          IF ~PaystackApprovedP1(status)
          THEN Reject(r, "PaystackP1", status, Resp(400, "not_approved"))
          ELSE \E hasMeta \in BOOLEAN, userId \in UserInputs, coins \in CoinInputs :
                 IF ~hasMeta \/ userId = NoUser
                 THEN Reject(r, "PaystackP1", status, Resp(500, "error"))
                 ELSE \E cents \in AmountInputs :
                        Admit(r, "PaystackP1", "txget", status, userId, coins,
                              ParseInt(coins), ref, Div100(cents), NoRef, FALSE)

PaystackBodyP1(q, doc, t) ==
  LET prev == IF doc.exists THEN OrZero(doc.coins) ELSE 0
      paymentData ==
        [NoRecord EXCEPT !.amount = q.amount, !.coins = q.coins,
                         !.gateway = "paystack", !.status = "success",
                         !.reference = q.ref, !.timestamp = t]
  IN IF ~doc.exists THEN SetWrite(q.coins, paymentData)
     ELSE UpdateWrite(JsAdd(prev, q.coins), paymentData, FALSE)

(***************************************************************************)
(* part_001: POST /stripe/verify/:intentId, in a transaction.              *)
(***************************************************************************)
StripeVerifyP1(r) ==
  /\ CanReceive(r, "StripeP1")
  /\ \/ Reject(r, "StripeP1", <<>>, UpstreamFailure)
     \/ \E intentId \in Refs, status \in StripeStatusInputs :
          IF ~StripeSucceeded(status)
          THEN Reject(r, "StripeP1", status, Resp(400, "not_approved"))
          ELSE \E userId \in UserInputs, coins \in StripeCoinInputs :
                 IF userId = NoUser
                 THEN Reject(r, "StripeP1", status, Resp(500, "error"))
                 ELSE \E cents \in AmountInputs :
                        Admit(r, "StripeP1", "txget", status, userId, coins,
                              ParseInt(coins), intentId, Div100(cents), NoRef, FALSE)

StripeBodyP1(q, doc, t) ==
  LET prev == IF doc.exists THEN OrZero(doc.coins) ELSE 0
      newBalance == JsAdd(prev, q.coins)
      paymentData ==
        [NoRecord EXCEPT !.amount = q.amount, !.coins = q.coins, !.reference = q.ref,
                         !.gateway = "stripe", !.status = "success", !.timestamp = t]
  IN IF ~doc.exists THEN SetWrite(newBalance, paymentData)
     ELSE UpdateWrite(newBalance, paymentData, FALSE)

(***************************************************************************)
(* part_000 and part_002: POST /stripe/verify/:intentId, a plain           *)
(* userRef.get() followed by a plain userRef.update().                     *)
(***************************************************************************)
StripeValidate(r, h) ==
  \/ Reject(r, h, <<>>, UpstreamFailure)
  \/ \E intentId \in Refs, status \in StripeStatusInputs :
       IF ~StripeSucceeded(status)
       THEN Reject(r, h, status, Resp(400, "not_approved"))
       ELSE \E userId \in UserInputs, coins \in StripeCoinInputs :
              IF userId = NoUser \/ ~Truthy(coins)
              THEN Reject(r, h, status, Resp(400, "missing_metadata"))
              ELSE \E cents \in AmountInputs :
                     Admit(r, h, "get", status, userId, coins, ParseInt(coins), intentId,
                           Div100(cents), NoRef, FALSE)

StripeVerifyP0(r) == CanReceive(r, "StripeP0") /\ StripeValidate(r, "StripeP0")

StripeVerifyP2(r) == CanReceive(r, "StripeP2") /\ StripeValidate(r, "StripeP2")

\* the argument of userRef.update(...), built when the get has returned
StripeUpdateP0(q, doc, t) == CoinsOnlyWrite(JsAdd(OrZero(doc.coins), q.coins))

StripeUpdateP2(q, doc, t) ==
  UpdateWrite(JsAdd(OrZero(doc.coins), q.coins),
              [NoRecord EXCEPT !.amount = q.amount, !.coins = q.coins,
                               !.status = "success", !.reference = q.ref,
                               !.gateway = "stripe", !.timestamp = t],
              FALSE)

(***************************************************************************)
(* db.runTransaction(updateFunction): the update function reads the user   *)
(* document and buffers one write; the store commits the write only if the *)
(* document is as it was read, and otherwise runs the function again.      *)
(***************************************************************************)
TxBody(q, doc, t) ==
  CASE q.h = "PaystackS1" -> PaystackBodyS1(q, doc, t)
    [] q.h = "PaystackS2" -> PaystackBodyS2(q, doc, t)
    [] q.h = "WaafiS1" -> WaafiBodyS1(q, doc, t)
    [] q.h = "WaafiP0" -> WaafiBodyP0(q, doc, t)
    [] q.h = "WaafiP1" -> WaafiBodyP1(q, doc, t)
    [] q.h = "PaystackP0" -> PaystackBodyP0(q, doc, t)
    [] q.h = "PaystackP1" -> PaystackBodyP1(q, doc, t)
    [] q.h = "StripeP1" -> StripeBodyP1(q, doc, t)

\* the gateway a handler serves
Gateway(h) ==
  CASE h \in {"PaystackS1", "PaystackS2", "PaystackP0", "PaystackP1", "PaystackInitS",
              "PaystackInitP", "PaystackInitP1"} -> "paystack"
    [] h \in {"StripeP0", "StripeP1", "StripeP2", "StripeIntent"} -> "stripe"
    [] OTHER -> "waafi"

\* the entry of the credit log for a committed write of request q
Credit(q) == [gateway |-> Gateway(q.h), reference |-> q.ref, coins |-> q.coins]

\* a rejected promise of the ledger section: every handler but part_001's
\* Waafi callback awaits inside try/catch and answers 500; that one has no
\* catch, and the request stays without a response
Failed(q, kind) ==
  IF q.h = "WaafiP1"
  THEN [Finish(q, NoResp) EXCEPT !.pc = "unanswered"]
  ELSE Finish(q, Resp(500, kind))

\* transaction.get(userRef) returns and the update function runs to its end
TxGet(r) ==
  LET q == req[r]
      w == TxBody(q, users[q.userId], now)
  IN /\ q.pc = "txget"
     /\ IF w.kind = "throw"
        THEN req' = [req EXCEPT ![r] = Failed(q, "user_not_found")]
        ELSE req' = [req EXCEPT ![r].pc = "commit", ![r].write = w,
                                ![r].snapVersion = users[q.userId].version]
     /\ UNCHANGED <<config, ledger, now, started>>

\* TxCommit with a slip: the write lands on every user document
TxCommitAllUsers(r) ==
  LET q == req[r]
  IN /\ q.pc = "commit"
     /\ users[q.userId].version = q.snapVersion
     /\ users' = [u \in Users |-> ApplyWrite(users[u], q.write, now)]
     /\ credits' = [credits EXCEPT ![q.userId] = Append(@, Credit(q))]
     /\ answers' = [answers EXCEPT ![q.userId] = Append(@, Resp(200, "credited"))]
     /\ req' = [req EXCEPT ![r] =
                  Finish([q EXCEPT !.wrote = @ + 1], Resp(200, "credited"))]
     /\ UNCHANGED <<config, paymentHistoryDocs, now, started>>
\* the commit succeeds, and the handler answers
TxCommit(r) ==
  LET q == req[r]
  IN /\ q.pc = "commit"
     /\ users[q.userId].version = q.snapVersion
     /\ users' = [users EXCEPT ![q.userId] = ApplyWrite(@, q.write, now)]
     /\ credits' = [credits EXCEPT ![q.userId] = Append(@, Credit(q))]
     /\ answers' = [answers EXCEPT ![q.userId] = Append(@, Resp(200, "credited"))]
     /\ req' = [req EXCEPT ![r] =
                  Finish([q EXCEPT !.wrote = @ + 1], Resp(200, "credited"))]
     /\ UNCHANGED <<config, paymentHistoryDocs, now, started>>

\* the document changed since it was read: the update function runs again
TxRetry(r) ==
  LET q == req[r]
  IN /\ q.pc = "commit"
     /\ users[q.userId].version # q.snapVersion
     /\ q.attempts + 1 < MaxAttempts
     /\ req' = [req EXCEPT ![r].pc = "txget", ![r].write = NoWrite,
                           ![r].attempts = @ + 1]
     /\ UNCHANGED <<config, ledger, now, started>>

\* the last attempt lost as well: runTransaction rejects
TxGiveUp(r) ==
  LET q == req[r]
  IN /\ q.pc = "commit"
     /\ users[q.userId].version # q.snapVersion
     /\ q.attempts + 1 >= MaxAttempts
     /\ req' = [req EXCEPT ![r] = Failed(q, "store_error")]
     /\ UNCHANGED <<config, ledger, now, started>>

\* StoreFail with a slip: the failed call leaves an empty user document
StoreFailAfterCreate(r) ==
  LET q == req[r]
  IN /\ q.pc \in {"lookup", "txget", "commit", "get", "update"}
     /\ req' = [req EXCEPT ![r] = Failed(q, "store_error")]
     /\ users' = [users EXCEPT ![q.userId] = IF @.exists THEN @ ELSE SignedUpDoc]
     /\ UNCHANGED <<config, paymentHistoryDocs, credits, answers, now, started>>
\* the store is unavailable: the pending ledger call rejects
StoreFail(r) ==
  LET q == req[r]
  IN /\ q.pc \in {"lookup", "txget", "commit", "get", "update"}
     /\ req' = [req EXCEPT ![r] = Failed(q, "store_error")]
     /\ UNCHANGED <<config, ledger, now, started>>

(***************************************************************************)
(* part_000 and part_002, Stripe verify: userRef.get() returns.            *)
(***************************************************************************)
StripeGet(r) ==
  LET q == req[r]
      doc == users[q.userId]
  IN /\ q.pc = "get"
     /\ IF ~doc.exists
        THEN req' = [req EXCEPT ![r] = Finish(q, Resp(404, "user_not_found"))]
        ELSE req' = [req EXCEPT ![r].pc = "update",
                       ![r].write = IF q.h = "StripeP0"
                                    THEN StripeUpdateP0(q, doc, now)
                                    ELSE StripeUpdateP2(q, doc, now)]
     /\ UNCHANGED <<config, ledger, now, started>>

\* userRef.update(...) is applied, and the handler answers newBalance
StripeUpdate(r) ==
  LET q == req[r]
  IN /\ q.pc = "update"
     /\ users' = [users EXCEPT ![q.userId] = ApplyWrite(@, q.write, now)]
     /\ credits' = [credits EXCEPT ![q.userId] = Append(@, Credit(q))]
     /\ answers' = [answers EXCEPT ![q.userId] =
                      Append(@, RespBalance(200, "credited", q.write.coins))]
     /\ req' = [req EXCEPT ![r] =
                  Finish([q EXCEPT !.wrote = @ + 1],
                         RespBalance(200, "credited", q.write.coins))]
     /\ UNCHANGED <<config, paymentHistoryDocs, now, started>>

(***************************************************************************)
(* The initiate handlers.  Each validates the body, awaits the provider's  *)
(* session-creation call and relays the outcome; none calls the store.     *)
(* email is whether the body names a payer (email or phone), amount the    *)
(* body's amount as a number.                                              *)
(***************************************************************************)
InitAmountInputs == {JsNum(Unit), JsNum(0), JsNum(-Unit), JsStr(<<"x">>), JsUndefined}

InitiateHandlers(v) ==
  CASE v \in {"server.js#1", "server.js#2", "part_003"} -> {"PaystackInitS", "WaafiInit"}
    [] v = "part_000" -> {"WaafiInit", "PaystackInitP", "StripeIntent"}
    [] v = "part_001" -> {"StripeIntent", "PaystackInitP1"}
    [] v = "part_002" -> {"StripeIntent", "PaystackInitP", "WaafiInit"}

CanInitiate(r, h) ==
  /\ h \in InitiateHandlers(variant)
  /\ req[r].pc = "idle"
  /\ \A s \in Req : s < r => req[s].pc # "idle"
  /\ started < RequestBudget(variant)

\* the handler sends the session-creation request and awaits the provider
Forward(r, h, email, amount) ==
  /\ req' = [req EXCEPT ![r] =
               [Idle EXCEPT !.pc = "provider", !.h = h, !.email = email,
                            !.amount = amount]]
  /\ started' = started + 1
  /\ UNCHANGED <<config, ledger, now>>

\* server.js, both revisions, and part_003: POST /paystack/initialize
PaystackInitializeS(r) ==
  /\ CanInitiate(r, "PaystackInitS")
  /\ \E email \in BOOLEAN, amount \in InitAmountInputs :
       IF ~email \/ ~Truthy(amount)
       THEN Reject(r, "PaystackInitS", <<>>, Resp(400, "invalid_request"))
       ELSE LET numericAmount == ToNumber(amount)
            IN IF numericAmount = NaN \/ numericAmount <= 0
               THEN Reject(r, "PaystackInitS", <<>>, Resp(400, "invalid_request"))
               ELSE Forward(r, "PaystackInitS", email, numericAmount)

\* part_000 and part_002: POST /paystack/initialize; the payload is built
\* from metadata.userId, which throws inside the try when metadata is absent
PaystackInitializeP(r) ==
  /\ CanInitiate(r, "PaystackInitP")
  /\ \E email \in BOOLEAN, amount \in InitAmountInputs, hasMetadata \in BOOLEAN :
       IF ~email \/ ~Truthy(amount)
       THEN Reject(r, "PaystackInitP", <<>>, Resp(400, "invalid_request"))
       ELSE IF ~hasMetadata
            THEN Reject(r, "PaystackInitP", <<>>, Resp(500, "error"))
            ELSE Forward(r, "PaystackInitP", email, ToNumber(amount))

\* part_001: POST /paystack/initialize
PaystackInitializeP1(r) ==
  /\ CanInitiate(r, "PaystackInitP1")
  /\ \E email \in BOOLEAN, amount \in InitAmountInputs, hasMetadata \in BOOLEAN :
       IF ~email \/ ~Truthy(amount) \/ ~hasMetadata
       THEN Reject(r, "PaystackInitP1", <<>>, Resp(400, "invalid_request"))
       ELSE Forward(r, "PaystackInitP1", email, ToNumber(amount))

\* POST /api/waafi/initiate: the body is forwarded as it came
WaafiInitiate(r) ==
  /\ CanInitiate(r, "WaafiInit")
  /\ \E phone \in BOOLEAN, amount \in InitAmountInputs :
       Forward(r, "WaafiInit", phone, ToNumber(amount))

\* part_000, part_001 and part_002: POST /stripe/create-intent
StripeCreateIntent(r) ==
  /\ CanInitiate(r, "StripeIntent")
  /\ \E email \in BOOLEAN, amount \in InitAmountInputs, others \in BOOLEAN :
       IF ~Truthy(amount) \/ ~others \/ ~email
       THEN Reject(r, "StripeIntent", <<>>, Resp(400, "invalid_request"))
       ELSE Forward(r, "StripeIntent", email, ToNumber(amount))

\* ProviderAnswers with a slip: an accepted session leaves a user document
\* for every user that had none
ProviderAnswersAndCreates(r) ==
  /\ req[r].pc = "provider"
  /\ \E ok \in BOOLEAN :
       /\ req' = [req EXCEPT ![r] =
                    Finish(@, IF ok THEN Resp(200, "initiated") ELSE UpstreamFailure)]
       /\ users' = IF ok
                   THEN [u \in Users |-> IF users[u].exists THEN users[u] ELSE SignedUpDoc]
                   ELSE users
  /\ UNCHANGED <<config, paymentHistoryDocs, credits, answers, now, started>>
\* the provider call returns or throws, and the handler answers
ProviderAnswers(r) ==
  /\ req[r].pc = "provider"
  /\ \E ok \in BOOLEAN :
       req' = [req EXCEPT ![r] =
                 Finish(@, IF ok THEN Resp(200, "initiated") ELSE UpstreamFailure)]
  /\ UNCHANGED <<config, ledger, now, started>>

Next ==
  \/ Tick
  \/ \E r \in Req : Close(r)
  \/ \E r \in Req : PaystackVerifyS1(r)
  \/ \E r \in Req : PaystackLookupS1(r)
  \/ \E r \in Req : PaystackVerifyS2(r)
  \/ \E r \in Req : WaafiCallbackS1(r)
  \/ \E r \in Req : WaafiCallbackP0(r)
  \/ \E r \in Req : WaafiCallbackP1(r)
  \/ \E r \in Req : PaystackVerifyP0(r)
  \/ \E r \in Req : PaystackVerifyP1(r)
  \/ \E r \in Req : StripeVerifyP1(r)
  \/ \E r \in Req : StripeVerifyP0(r)
  \/ \E r \in Req : StripeVerifyP2(r)
  \/ \E r \in Req : TxGet(r)
  \/ \E r \in Req : TxCommit(r)
  \/ \E r \in Req : TxRetry(r)
  \/ \E r \in Req : TxGiveUp(r)
  \/ \E r \in Req : StoreFail(r)
  \/ \E r \in Req : StripeGet(r)
  \/ \E r \in Req : StripeUpdate(r)
  \/ \E r \in Req : PaystackInitializeS(r)
  \/ \E r \in Req : PaystackInitializeP(r)
  \/ \E r \in Req : PaystackInitializeP1(r)
  \/ \E r \in Req : WaafiInitiate(r)
  \/ \E r \in Req : StripeCreateIntent(r)
  \/ \E r \in Req : ProviderAnswers(r)

Spec == Init /\ [][Next]_vars

(***************************************************************************)
(* part_001 under contention.  The deployment receives Waafi callbacks     *)
(* only, MaxRequests of them, so that one transaction can lose every one   *)
(* of its attempts to the commits of the others.                           *)
(***************************************************************************)
InitContention == Init /\ variant = "part_001"

\* POST /api/waafi/callback arrives at the lowest free slot
WaafiCallbackBusy(r) ==
  /\ req[r].pc = "idle"
  /\ \A s \in Req : s < r => req[s].pc # "idle"
  /\ started < MaxRequests
  /\ WaafiValidate(r, "WaafiP1")

NextContention ==
  \/ Tick
  \/ \E r \in Req : Close(r)
  \/ \E r \in Req : WaafiCallbackBusy(r)
  \/ \E r \in Req : TxGet(r)
  \/ \E r \in Req : TxCommit(r)
  \/ \E r \in Req : TxRetry(r)
  \/ \E r \in Req : TxGiveUp(r)
  \/ \E r \in Req : StoreFail(r)

SpecContention == InitContention /\ [][NextContention]_vars
(***************************************************************************)
(* Properties.                                                             *)
(***************************************************************************)
History(u) == users[u].paymentHistory

\* the gateway a record names: gateway, or method in the signed Waafi callback
RecordGateway(rec) == IF rec.gateway # "" THEN rec.gateway ELSE rec.method

SameKey(a, b) == RecordGateway(a) = RecordGateway(b) /\ a.reference = b.reference

\* a positive whole number of coins
ValidCoins(c) == c # NaN /\ c > 0 /\ c % Unit = 0

RECURSIVE SumCoins(_)
SumCoins(seq) ==
  IF seq = <<>> THEN 0 ELSE JsAdd(SumCoins(Tail(seq)), Head(seq).coins)

\* the request is between its validation and its answer
InLedgerSection(q) == q.pc \in {"lookup", "txget", "commit", "get", "update"}

\* request r commits a ledger write in this step
Commits(r) == req'[r].wrote = req[r].wrote + 1

\* C1: Idempotence of confirm.  A valid confirmation event delivered more
\* than once is credited to its user once (the balance is the balance after
\* one delivery), and the user's history holds one Payment Record with the
\* event's (gateway, reference).
C1_Idempotence ==
  \A u \in Users :
    /\ \A i, j \in 1..Len(credits[u]) :
         (i < j /\ ValidCoins(credits[u][i].coins)) => credits[u][i] # credits[u][j]
    /\ \A i, j \in 1..Len(History(u)) :
         i < j => ~SameKey(History(u)[i], History(u)[j])

\* C2: Concurrent duplicate race.  A request never commits a credit when a
\* request with the same (gateway, reference) for the same user has been
\* credited since it arrived: of two such requests in flight together, one
\* credits.
C2_OneCreditPerRace ==
  [][\A r \in Req :
       Commits(r) =>
         ~\E i \in (req[r].arrived + 1)..Len(credits[req[r].userId]) :
             /\ credits[req[r].userId][i].gateway = Gateway(req[r].h)
             /\ credits[req[r].userId][i].reference = req[r].ref]_vars

\* C3: Conservation.  In every reachable state the stored balance of every
\* user is the sum of the coins of the Payment Records of the user's history.
C3_Conservation == \A u \in Users : users[u].coins = SumCoins(History(u))

\* C4: No lost updates.  The balance of a user credited with valid
\* confirmations only is the initial balance, 0, plus the coins of every
\* credit the store committed for the user: no credit is overwritten.
C4_NoLostUpdate ==
  \A u \in Users :
    (\A i \in 1..Len(credits[u]) : ValidCoins(credits[u][i].coins))
      => users[u].coins = SumCoins(credits[u])

\* C5: No partial application.  In every step and for every user a credit
\* is committed to the balance exactly when a Payment Record is appended to
\* the history, and a request answered with an error has written nothing.
C5_NoPartialApplication ==
  [][/\ \A u \in Users :
          (Len(credits'[u]) > Len(credits[u])) <=> (Len(History(u)') > Len(History(u)))
     /\ \A r \in Req : req'[r].resp.code >= 500 => req'[r].wrote = 0]_vars

\* the answers NotApproved, MissingMetadata and InvalidSignature
RejectKinds ==
  {"not_approved", "missing_metadata", "invalid_coins", "missing_signature",
   "invalid_signature"}

\* C6: Rejection purity.  A request that ends as NotApproved,
\* MissingMetadata or InvalidSignature has written nothing, and the step
\* that answers it leaves every user document and the credit log unchanged.
C6_RejectionPurity ==
  [][\A r \in Req :
       (req'[r].pc = "done" /\ req'[r].resp.kind \in RejectKinds)
         => /\ req'[r].wrote = 0
            /\ req[r] # req'[r] => (users' = users /\ credits' = credits)]_vars

\* two rejected requests, of two kinds
C6_Witness ==
  /\ req[1].pc = "done" /\ req[1].resp.kind = "invalid_signature"
  /\ req[2].pc = "done" /\ req[2].resp.kind = "not_approved"

\* the handlers whose transaction has a create branch
LazyHandlers ==
  {"PaystackS2", "WaafiP0", "PaystackP0", "StripeP1", "PaystackP1", "WaafiP1"}

C8_NonPositiveCoinsRejected ==
  \A u \in Users : \A i \in 1..Len(credits[u]) :
    credits[u][i].coins # NaN /\ credits[u][i].coins > 0

\* C9: Webhook authenticity gate.  A webhook request is credited only after
\* its signature check has passed.
C9_WebhookAuthenticityGate ==
  \A r \in Req : (Gateway(req[r].h) = "waafi" /\ req[r].wrote > 0) => req[r].sigOk

\* the success sentinel a handler compares the provider status with
Sentinel(h) ==
  CASE Gateway(h) = "paystack" -> StrSuccess
    [] Gateway(h) = "stripe" -> StrSucceeded
    [] h = "WaafiS1" -> StrSUCCESS
    [] OTHER -> StrAPPROVED

\* C10, as the claim states it: a request is credited only with a provider
\* status that is exactly its gateway's sentinel.
C10_ExactSentinel ==
  \A r \in Req : req[r].wrote > 0 => req[r].status = Sentinel(req[r].h)

\* C10, amended: a request reaches the ledger only with a provider status
\* equal to the sentinel, letter case ignored in the signed Waafi callback
\* and respected elsewhere; a request with any other status that was read
\* writes nothing and is answered NotApproved, or, in the signed Waafi
\* callback, where the status is compared last, with an earlier 400.
C10_SentinelUpToCaseInWaafi ==
  \A r \in Req :
    LET q == req[r]
        approved == IF q.h = "WaafiS1" THEN ToUpperCase(q.status) = StrSUCCESS
                    ELSE q.status = Sentinel(q.h)
    IN /\ (InLedgerSection(q) \/ q.wrote > 0) => approved
       /\ (q.pc = "done" /\ q.status # <<>> /\ ~approved)
            => /\ q.wrote = 0
               /\ IF q.h = "WaafiS1"
                  THEN q.resp.kind \in {"not_approved", "incomplete", "missing_metadata",
                                        "invalid_coins"}
                  ELSE q.resp.kind = "not_approved"

\* a credited request with the exact sentinel beside a rejected one whose
\* status holds the sentinel as a prefix
C10_Witness ==
  \E r1, r2 \in Req :
    /\ req[r1].wrote > 0 /\ req[r1].status = Sentinel(req[r1].h)
    /\ req[r2].pc = "done" /\ req[r2].resp.kind = "not_approved"
    /\ Len(req[r2].status) > Len(Sentinel(req[r2].h))
    /\ SubSeq(req[r2].status, 1, Len(Sentinel(req[r2].h))) = Sentinel(req[r2].h)

\* C11: The duplicate lookup and the credit form one atomic step.  A
\* request that made a duplicate lookup commits its write on the user
\* document as it was when the lookup returned: no write to that document
\* was committed in between.
C11_LookupAndCreditAtomic ==
  [][\A r \in Req :
       (Commits(r) /\ req[r].h = "PaystackS1")
         => users[req[r].userId].version = req[r].lookVersion]_vars

\* C12: Duplicate responses are indistinguishable from the original
\* success.  Two deliveries of one (gateway, reference) for one user that
\* were both answered as applied got the same response, newBalance included.
C12_DuplicateAnsweredAsOriginal ==
  \A u \in Users : \A i, j \in 1..Len(credits[u]) :
    (/\ i < j
     /\ credits[u][i].gateway = credits[u][j].gateway
     /\ credits[u][i].reference = credits[u][j].reference)
      => answers[u][i] = answers[u][j]

\* C13: Uniqueness of the idempotency key.  Across the histories of all
\* users taken together, no two Payment Records have the same (gateway,
\* reference).
C13_KeyUniqueAcrossUsers ==
  \A u, v \in Users :
    \A i \in 1..Len(History(u)) : \A j \in 1..Len(History(v)) :
      (u # v \/ i # j) => ~SameKey(History(u)[i], History(v)[j])

\* the handlers that make a provider call
VerifyHandlers ==
  {"PaystackS1", "PaystackS2", "PaystackP0", "PaystackP1", "StripeP0", "StripeP1", "StripeP2"}

\* C14: Upstream failure never mutates the ledger.  A request whose
\* provider call failed is answered with a retryable error (5xx), has
\* written nothing, and the step that answers it changes no user document
\* and commits no credit.
C14_UpstreamFailureNoMutation ==
  [][\A r \in Req :
       (req[r].pc # "done" /\ req'[r].pc = "done" /\ req'[r].resp.kind = "upstream_error")
         => /\ req'[r].resp.code >= 500
            /\ req'[r].wrote = 0
            /\ users' = users /\ credits' = credits]_vars

\* a verify request and an initiate request, both ended by a failed
\* provider call
C14_Witness ==
  \E r1, r2 \in Req :
    /\ req[r1].pc = "done" /\ req[r1].resp.kind = "upstream_error"
    /\ req[r1].h \in VerifyHandlers
    /\ req[r2].pc = "done" /\ req[r2].resp.kind = "upstream_error"
    /\ req[r2].h \in {"PaystackInitS", "PaystackInitP", "PaystackInitP1", "WaafiInit",
                      "StripeIntent"}

\* C15: Initiate validation.  A session-creation request is forwarded to
\* the provider only when it names a payer and its amount is a number
\* greater than 0.
C15_InitiateValidation ==
  \A r \in Req :
    req[r].pc = "provider"
      => (req[r].email /\ req[r].amount # NaN /\ req[r].amount > 0)

\* C16: Every request is answered.  No exception raised while a request is
\* handled leaves the request without a response.
C16_NoRequestLeftUnanswered == \A r \in Req : req[r].pc # "unanswered"

\* C17: History is append-only.  In every step the history of every user
\* keeps the records it had, with the same field values, at the same
\* positions.
C17_HistoryAppendOnly ==
  [][\A u \in Users :
       /\ Len(users'[u].paymentHistory) >= Len(users[u].paymentHistory)
       /\ \A i \in 1..Len(users[u].paymentHistory) :
            users'[u].paymentHistory[i] = users[u].paymentHistory[i]]_vars

\* a user document created with set, then appended to with update
C17_Witness ==
  /\ Len(History("u2")) = 2
  /\ History("u2")[1].reference # History("u2")[2].reference

\* C18: Integer, non-negative balances.  The balance of every user is a
\* non-negative whole number, and every committed credit is a positive
\* whole number of coins.
C18_IntegerNonNegativeBalances ==
  \A u \in Users :
    /\ users[u].coins # NaN /\ users[u].coins >= 0 /\ users[u].coins % Unit = 0
    /\ \A i \in 1..Len(credits[u]) : ValidCoins(credits[u][i].coins)

\* C19: Only successful payments are recorded.  Every Payment Record of
\* every history has status "success" and a positive number of coins.
C19_OnlySuccessRecorded ==
  \A u \in Users : \A i \in 1..Len(History(u)) :
    /\ History(u)[i].status = "success"
    /\ History(u)[i].coins # NaN /\ History(u)[i].coins > 0

\* C20: One event, at most one record.  In every step and for every user,
\* either a request commits, the history grows by exactly one record and
\* the balance by exactly that request's coins, or history and balance
\* stay as they are.
C20_OneEventOneRecord ==
  [][\A u \in Users :
       \/ /\ users'[u].paymentHistory = users[u].paymentHistory
          /\ users'[u].coins = users[u].coins
       \/ \E r \in Req :
            /\ Commits(r) /\ req[r].userId = u
            /\ Len(users'[u].paymentHistory) = Len(users[u].paymentHistory) + 1
            /\ users'[u].coins = JsAdd(users[u].coins, req[r].coins)]_vars

\* C21: Bounded conflict retry.  No request runs its transaction more than
\* MaxAttempts times or commits more than once, and a request whose last
\* attempt lost to a concurrent writer ends answered with a 5xx error,
\* with no write of its own and the user documents as they were.
C21_BoundedConflictRetry ==
  [][\A r \in Req :
       /\ req'[r].attempts < MaxAttempts
       /\ req'[r].wrote <= 1
       /\ ( /\ req[r].pc = "commit"
            /\ users[req[r].userId].version # req[r].snapVersion
            /\ req[r].attempts + 1 >= MaxAttempts
            /\ req'[r] # req[r] )
            => /\ req'[r].pc = "done"
               /\ req'[r].resp.code >= 500
               /\ req'[r].wrote = 0
               /\ users' = users]_vars

\* C22: Missing webhook secret is a startup failure.  A server that runs
\* without a webhook verification secret never handles a webhook request:
\* no Waafi callback is received while the secret is absent.
C22_NoWebhookWithoutSecret ==
  \A r \in Req :
    req[r].h \in {"WaafiS1", "WaafiP0", "WaafiP1"} => waafiWebhookSecret

\* C23: Idempotency key includes the gateway.  After every step, two
\* committed credits of one user with the same reference and different
\* gateways have each a Payment Record of its own gateway in the history;
\* and a request is answered as a duplicate only when the history holds a
\* record with the request's own gateway and reference.
C23_KeyIncludesGateway ==
  [][/\ \A u \in Users : \A i, j \in 1..Len(credits'[u]) :
          ( /\ credits'[u][i].reference = credits'[u][j].reference
            /\ credits'[u][i].gateway # credits'[u][j].gateway )
            => \E k \in 1..Len(users'[u].paymentHistory) :
                 /\ users'[u].paymentHistory[k].reference = credits'[u][i].reference
                 /\ RecordGateway(users'[u].paymentHistory[k]) = credits'[u][i].gateway
     /\ \A r \in Req :
          (req'[r].resp.kind = "duplicate" /\ req[r].resp.kind # "duplicate")
            => \E k \in 1..Len(History(req[r].userId)) :
                 /\ History(req[r].userId)[k].reference = req[r].ref
                 /\ RecordGateway(History(req[r].userId)[k]) = Gateway(req[r].h)]_vars

\* C24: Gross amount never enters balance math.  The number of coins a
\* committing request credits is the number read from the coins value of
\* its payload's metadata or custom reference (by Number or by parseInt),
\* whatever the provider's settlement amount is.
C24_CoinsFromMetadata ==
  [][\A r \in Req :
       Commits(r) => req[r].coins \in {ToNumber(req[r].metaCoins),
                                       ParseInt(req[r].metaCoins)}]_vars

\* C25: Reported balance is the committed balance.  The response of a
\* request that commits its credit carries newBalance, and newBalance is
\* the balance its user document has after the commit, which is the
\* balance before the commit plus the request's coins.
C25_ReportedBalanceIsCommitted ==
  [][\A r \in Req :
       Commits(r)
         => /\ req'[r].resp.hasBalance
            /\ req'[r].resp.newBalance = users'[req[r].userId].coins
            /\ users'[req[r].userId].coins =
                 JsAdd(users[req[r].userId].coins, req[r].coins)]_vars

\* C26: User documents are created only by a successful credit and never
\* deleted.  In every step a user document that exists goes on existing,
\* and a user document that comes to exist does so in the step in which a
\* request for that user commits its credit and is answered with success;
\* so a document that exists was there at the start or has a credit.
C26_CreatedByCreditNeverDeleted ==
  [][\A u \in Users :
       /\ users[u].exists => users'[u].exists
       /\ (~users[u].exists /\ users'[u].exists)
            => \E r \in Req :
                 /\ Commits(r) /\ req[r].userId = u
                 /\ req'[r].resp.kind = "credited"
                 /\ credits'[u] = Append(credits[u], Credit(req[r]))
       /\ users'[u].exists => (u = "u1" \/ credits'[u] # <<>>)]_vars

\* a user document created by a credit is still there after a later credit
C26_Witness ==
  /\ users["u1"].exists /\ users["u2"].exists
  /\ Len(credits["u2"]) = 2
  /\ users["u2"].version = 2

\* C27: MissingMetadata is distinguishable.  A request commits a credit
\* only if a user id and a coin amount were extracted from its payload,
\* and a confirmation whose status is the success sentinel is never
\* answered with the generic failure outcome.
C27_MissingMetadataDistinguishable ==
  [][\A r \in Req :
       /\ Commits(r) => (req[r].userId # NoUser /\ req[r].coins # NaN)
       /\ (req'[r].pc = "done" /\ req'[r].status = Sentinel(req'[r].h))
            => req'[r].resp.kind # "error"]_vars

\* C28: Ordering of a confirm request.  A request commits a ledger write
\* only after its status check (the sentinel, up to letter case), its
\* metadata check (a user id and a coin amount) and, for a webhook, its
\* signature check have passed; and a request is answered with success
\* only in the step in which its one credit commits.
C28_ValidateCommitAnswer ==
  [][\A r \in Req :
       /\ Commits(r)
            => /\ ToUpperCase(req[r].status) = ToUpperCase(Sentinel(req[r].h))
               /\ req[r].userId # NoUser /\ req[r].coins # NaN
               /\ Gateway(req[r].h) = "waafi" => req[r].sigOk
       /\ (req'[r].resp.kind = "credited" /\ req[r].resp.kind # "credited")
            => (Commits(r) /\ req'[r].wrote = 1)]_vars

\* the handlers with no create branch: the update function throws, or the
\* handler answers 404, when the user document is absent
StrictHandlers == {"PaystackS1", "WaafiS1", "StripeP0", "StripeP2"}

\* C29: Handlers that require an existing user.  When such a handler reads
\* the user document of a validated confirmation and finds none, the
\* request ends in that step, answered 500 or 404, with no write, and no
\* user document, balance or history changes; and such a handler commits
\* only on a document that exists.
C29_StrictHandlersRequireUser ==
  [][\A r \in Req :
       req[r].h \in StrictHandlers
         => /\ ( /\ req[r].pc \in {"txget", "get"}
                 /\ ~users[req[r].userId].exists
                 /\ req'[r] # req[r] )
                 => /\ req'[r].pc = "done"
                    /\ req'[r].resp.code \in {404, 500}
                    /\ req'[r].resp.kind \in {"user_not_found", "store_error"}
                    /\ req'[r].wrote = 0
                    /\ users' = users /\ credits' = credits
            /\ Commits(r) => (users[req[r].userId].exists /\ users'[req[r].userId].exists)]_vars

\* a confirmation for the user without a document was answered that the
\* user was not found, and the user still has no document
C29_Witness ==
  \E r \in Req :
    /\ req[r].pc = "done" /\ req[r].h \in StrictHandlers
    /\ req[r].resp.kind = "user_not_found" /\ req[r].resp.code \in {404, 500}
    /\ ~users["u2"].exists /\ credits["u2"] = <<>>

\* C30: Frame of a credit.  In every step, a user whose document or credit
\* log changes is the user of a request that commits in that step; the
\* documents of all other users stay as they are, whatever happens to the
\* requests (applied, rejected, duplicate, failed).
C30_FrameOfCredit ==
  [][\A v \in Users :
       (users'[v] # users[v] \/ credits'[v] # credits[v])
         => /\ \E r \in Req : Commits(r) /\ req[r].userId = v
            /\ \A w \in Users \ {v} : users'[w] = users[w] /\ credits'[w] = credits[w]]_vars

\* each of two users was credited once and has the balance and the one
\* record of that credit
C30_Witness ==
  \A u \in Users :
    /\ Len(credits[u]) = 1
    /\ users[u].exists /\ users[u].coins = credits[u][1].coins
    /\ Len(History(u)) = 1 /\ History(u)[1].reference = credits[u][1].reference

\* C31: Balances never decrease.  In every step the balance of every user
\* stays as it is or becomes a number greater than or equal to the number
\* it was.
C31_BalancesNeverDecrease ==
  [][\A u \in Users :
       \/ users'[u].coins = users[u].coins
       \/ /\ users[u].coins # NaN /\ users'[u].coins # NaN
          /\ users'[u].coins >= users[u].coins]_vars

\* the initiate handlers of all revisions
AllInitiateHandlers == UNION {InitiateHandlers(v) : v \in Variants}

\* C32: Initiate never touches the ledger.  A step in which an initiate
\* request arrives, is forwarded, is answered or is closed leaves every
\* user document, the payment history subcollection and the credit log as
\* they are, and an initiate request is never at a ledger call and has
\* never written.
C32_InitiateNeverTouchesLedger ==
  [][\A r \in Req :
       /\ ( /\ req'[r] # req[r]
            /\ (req[r].h \in AllInitiateHandlers \/ req'[r].h \in AllInitiateHandlers) )
            => /\ users' = users
               /\ paymentHistoryDocs' = paymentHistoryDocs
               /\ credits' = credits
       /\ req'[r].h \in AllInitiateHandlers
            => (~InLedgerSection(req'[r]) /\ req'[r].wrote = 0)]_vars

\* one initiate request accepted by the provider and one whose provider
\* call failed, with the user documents as they were at the start
C32_Witness ==
  /\ \E r1, r2 \in Req :
       /\ req[r1].h \in AllInitiateHandlers /\ req[r1].resp.kind = "initiated"
       /\ req[r2].h \in AllInitiateHandlers /\ req[r2].resp.kind = "upstream_error"
  /\ users["u1"] = SignedUpDoc /\ users["u2"] = NoDoc

\* C33: At most one response per request.  In every step, a request that
\* has a response keeps it until the connection is closed, and a response
\* is sent only to a request that had none, which ends the handler; a
\* request has a response exactly when its handler has ended with one.
C33_AtMostOneResponse ==
  [][\A r \in Req :
       /\ req[r].resp # NoResp => (req'[r] = req[r] \/ req'[r] = Idle)
       /\ (req'[r].resp # NoResp /\ req'[r] # req[r])
            => (req[r].resp = NoResp /\ req'[r].pc = "done")
       /\ (req'[r].pc = "done") <=> (req'[r].resp # NoResp)]_vars

\* one request answered after its commit and one answered from the catch
\* block after a failed store call
C33_Witness ==
  \E r1, r2 \in Req :
    /\ req[r1].pc = "done" /\ req[r1].resp.kind = "credited" /\ req[r1].wrote = 1
    /\ req[r2].pc = "done" /\ req[r2].resp.kind = "store_error" /\ req[r2].wrote = 0

\* C34: A transactionId that differs from internalTxId does not block the
\* signed Waafi callback.  A validated callback whose transaction reads an
\* existing user document goes on to its commit whatever the two ids are,
\* and the commit is answered with success, adds the coins and leaves in
\* the history a record whose reference is the internalTxId and whose
\* gatewayTransactionId is the payload's transactionId.
C34_IdMismatchDoesNotBlock ==
  [][\A r \in Req :
       req[r].h = "WaafiS1"
         => /\ ( /\ req[r].pc = "txget" /\ users[req[r].userId].exists
                 /\ req'[r] # req[r] )
                 => \/ req'[r].pc = "commit" /\ req'[r].write.rec.reference = req[r].ref
                    \/ req'[r].resp.kind = "store_error"
            /\ Commits(r)
                 => /\ req'[r].resp.kind = "credited"
                    /\ users'[req[r].userId].coins =
                         JsAdd(OrZero(users[req[r].userId].coins), req[r].coins)
                    /\ \E k \in 1..Len(users'[req[r].userId].paymentHistory) :
                         LET rec == users'[req[r].userId].paymentHistory[k]
                         IN /\ rec.method = "waafi"
                            /\ rec.reference = req[r].ref
                            /\ rec.gatewayTransactionId = req[r].txid]_vars

\* a signed callback whose transactionId differs from its internalTxId was
\* credited and recorded under the internalTxId
C34_Witness ==
  \E u \in Users : \E k \in 1..Len(History(u)) : \E i \in 1..Len(credits[u]) :
    /\ History(u)[k].method = "waafi"
    /\ History(u)[k].gatewayTransactionId # History(u)[k].reference
    /\ credits[u][i].gateway = "waafi"
    /\ credits[u][i].reference = History(u)[k].reference
    /\ users[u].coins = credits[u][i].coins
====
